---- MODULE Spec2Model ----
(***************************************************************************)
(* Model of app.py, the Streamlit sales-forecast mini app.                 *)
(*                                                                         *)
(* Streamlit re-executes the whole script on every user event (upload,     *)
(* file removal, selectbox change, slider change, button click).  One      *)
(* action of the model is one such event followed by the complete script   *)
(* run it triggers.  The variables are the session state that survives     *)
(* between runs (the uploaded file, the widget values) and everything the  *)
(* last run computed and put on the page.                                  *)
(*                                                                         *)
(* Texts (dates as read from the CSV, formatted cells, the exported CSV)   *)
(* are sequences of one-character strings.  Raw engine outputs are         *)
(* fixed-point numbers in tenths of a unit (124 stands for 12.4).          *)
(***************************************************************************)
EXTENDS Integers, Sequences, FiniteSets, TLC

\* ------------------------------------------------------------------------
\* Bounds of the model
\* ------------------------------------------------------------------------
\* most lines in an uploaded file that has the three required columns
MaxRows == 4

\* most lines in an uploaded file that lacks one of them
MaxRowsIncomplete == 2

\* ------------------------------------------------------------------------
\* Program constants
\* ------------------------------------------------------------------------
SliderMin == 1
SliderMax == 12
SliderDefault == 3
MinHistory == 3

\* ------------------------------------------------------------------------
\* Text helpers
\* ------------------------------------------------------------------------
Digits == <<"0", "1", "2", "3", "4", "5", "6", "7", "8", "9">>

Digit(n) == Digits[n + 1]

DigitVal ==
    ("0" :> 0) @@ ("1" :> 1) @@ ("2" :> 2) @@ ("3" :> 3) @@ ("4" :> 4) @@
    ("5" :> 5) @@ ("6" :> 6) @@ ("7" :> 7) @@ ("8" :> 8) @@ ("9" :> 9)

IsDigit(c) == c \in DOMAIN DigitVal

\* %02d
Pad2(n) == <<Digit((n \div 10) % 10), Digit(n % 10)>>

\* %04d
Pad4(n) ==
    <<Digit((n \div 1000) % 10), Digit((n \div 100) % 10),
      Digit((n \div 10) % 10), Digit(n % 10)>>

RECURSIVE NatToText(_)
NatToText(n) ==
    IF n < 10 THEN <<Digit(n)>> ELSE NatToText(n \div 10) \o <<Digit(n % 10)>>

\* str(int): decimal text of an integer, "-" prefix when negative
IntToText(n) == IF n < 0 THEN <<"-">> \o NatToText(0 - n) ELSE NatToText(n)

\* ------------------------------------------------------------------------
\* Calendar dates <<year, month, day>>
\* ------------------------------------------------------------------------
Year(d) == d[1]
Month(d) == d[2]
Day(d) == d[3]

IsLeap(y) == (y % 4 = 0 /\ y % 100 # 0) \/ y % 400 = 0

DaysInMonth(y, m) ==
    IF m = 2 THEN (IF IsLeap(y) THEN 29 ELSE 28)
    ELSE IF m \in {4, 6, 9, 11} THEN 30 ELSE 31

DateLess(a, b) ==
    \/ a[1] < b[1]
    \/ a[1] = b[1] /\ a[2] < b[2]
    \/ a[1] = b[1] /\ a[2] = b[2] /\ a[3] < b[3]

\* months since year 0; the calendar month a date falls in
MonthIndex(d) == 12 * Year(d) + (Month(d) - 1)

MonthStartOfIndex(i) == <<i \div 12, (i % 12) + 1, 1>>

\* strftime("%Y-%m-%d")
strftime_Ymd(d) == Pad4(Year(d)) \o <<"-">> \o Pad2(Month(d)) \o <<"-">> \o Pad2(Day(d))

\* strftime("%Y-%m")
strftime_Ym(d) == Pad4(Year(d)) \o <<"-">> \o Pad2(Month(d))

\* strftime("%m/%Y")
strftime_mY(d) == Pad2(Month(d)) \o <<"/">> \o Pad4(Year(d))

NaT == <<0, 0, 0>>

\* pd.to_datetime on one ISO cell: YYYY-MM-DD naming a real calendar day,
\* anything else is unparseable (NaT here, an exception for the column)
to_datetime(s) ==
    IF /\ Len(s) = 10
       /\ s[5] = "-" /\ s[8] = "-"
       /\ \A i \in {1, 2, 3, 4, 6, 7, 9, 10} : IsDigit(s[i])
    THEN LET y == 1000 * DigitVal[s[1]] + 100 * DigitVal[s[2]]
                  + 10 * DigitVal[s[3]] + DigitVal[s[4]]
             m == 10 * DigitVal[s[6]] + DigitVal[s[7]]
             d == 10 * DigitVal[s[9]] + DigitVal[s[10]]
         IN IF y >= 1 /\ m \in 1..12 /\ d >= 1 /\ d <= DaysInMonth(y, m)
            THEN <<y, m, d>> ELSE NaT
    ELSE NaT

\* ------------------------------------------------------------------------
\* Uploaded files
\* ------------------------------------------------------------------------
RequiredColumns == {"data_ref", "produto", "quantidade"}

\* sorted() over the product names that occur in the model
ProductOrder == <<"bolo", "cafe">>

ProductRank(p) == CHOOSE i \in 1..Len(ProductOrder) : ProductOrder[i] = p

BadDateText == <<"2", "0", "2", "4", "-", "1", "3", "-", "0", "1">>

RawRow(text, p, q) == [data_ref |-> text, produto |-> p, quantidade |-> q]

\* the CSV lines an upload is assembled from: one product with a record in
\* October, two on different days of November and one in December, a second
\* product, and a line whose date names month 13.  They are listed out of
\* date order and out of product order, and an upload holds some of them,
\* possibly repeated, in the order of this list.
RowPool ==
    << RawRow(strftime_Ymd(<<2024, 12, 1>>), "bolo", 9),
       RawRow(strftime_Ymd(<<2024, 11, 1>>), "cafe", 7),
       RawRow(strftime_Ymd(<<2024, 11, 15>>), "bolo", 3),
       RawRow(strftime_Ymd(<<2024, 10, 20>>), "bolo", 10),
       RawRow(BadDateText, "cafe", 4),
       RawRow(strftime_Ymd(<<2024, 11, 1>>), "bolo", 12) >>

\* the selections of at most n lines of the pool
LineSelections(n) ==
    {s \in UNION {[1..k -> DOMAIN RowPool] : k \in 0..n} :
        \A i \in 1..(Len(s) - 1) : s[i] <= s[i + 1]}

ColumnSets == {RequiredColumns} \cup {RequiredColumns \ {c} : c \in RequiredColumns}

\* most lines of a modelled file with the columns c
RowLimit(c) == IF c = RequiredColumns THEN MaxRows ELSE MaxRowsIncomplete

\* st.sidebar.file_uploader: the value when nothing is uploaded
NoFile == [cols |-> {}, rows |-> <<>>, present |-> FALSE]

Files ==
    {[cols |-> cs[1], rows |-> [i \in DOMAIN cs[2] |-> RowPool[cs[2][i]]], present |-> TRUE] :
        cs \in UNION {{<<c, s>> : s \in LineSelections(RowLimit(c))} : c \in ColumnSets}}

\* ------------------------------------------------------------------------
\* Loading (lines 65-68)
\* ------------------------------------------------------------------------
\* pd.read_csv: one frame row per CSV line, holding the columns the file has
read_csv(arquivo) ==
    [cols |-> arquivo.cols,
     rows |-> [i \in DOMAIN arquivo.rows |->
                  [c \in arquivo.cols |-> arquivo.rows[i][c]]]]

\* pd.to_datetime(df["data_ref"]) cell by cell; the call raises ValueError
\* when a cell does not parse, shown here as NaT in the result
ParseDates(raw) ==
    [cols |-> raw.cols,
     rows |-> [i \in DOMAIN raw.rows |->
                  [raw.rows[i] EXCEPT !.data_ref = to_datetime(raw.rows[i].data_ref)]]]

\* the frame after lines 65-68
LoadData(arquivo) == ParseDates(read_csv(arquivo))

EmptyFrame == [cols |-> {}, rows |-> <<>>]

\* ------------------------------------------------------------------------
\* Preview (lines 73-76)
\* ------------------------------------------------------------------------
\* df_preview = df.copy(); its data_ref column is rewritten as AAAA-MM.
\* The step returns the frame df is bound to afterwards and the preview.
PreviewStep(df) ==
    [df |-> df,
     df_preview |-> [i \in DOMAIN df.rows |->
                        [df.rows[i] EXCEPT !.data_ref = strftime_Ym(df.rows[i].data_ref)]]]

\* ------------------------------------------------------------------------
\* Selectors (lines 81-92)
\* ------------------------------------------------------------------------
RECURSIVE SortProducts(_)
SortProducts(S) ==
    IF S = {} THEN <<>>
    ELSE LET p == CHOOSE x \in S : \A y \in S : ProductRank(x) <= ProductRank(y)
         IN <<p>> \o SortProducts(S \ {p})

\* sorted(df["produto"].unique())
ListaProdutos(df) == SortProducts({df.rows[i].produto : i \in DOMAIN df.rows})

NoProduct == "None"

\* widget state Streamlit keeps between runs; a widget the run did not draw
\* loses its state
NoWidgets == [has_select |-> FALSE, options |-> <<>>, produto |-> NoProduct,
              has_slider |-> FALSE, meses |-> 0]

\* st.sidebar.selectbox: the stored choice while the option list is the one
\* it was made from, else the first option (None when there is no option)
Selectbox(w, options) ==
    IF w.has_select /\ w.options = options THEN w.produto
    ELSE IF options = <<>> THEN NoProduct ELSE options[1]

\* st.sidebar.slider(min_value=1, max_value=12, value=3)
Slider(w) == IF w.has_slider THEN w.meses ELSE SliderDefault

\* ------------------------------------------------------------------------
\* Series of the selected product (lines 100-115)
\* ------------------------------------------------------------------------
\* variant: the filter is assigned back to df instead of copied
DfProdutoStep_inplace(df, produto) ==
    [df |-> [df EXCEPT !.rows = SelectSeq(df.rows, LAMBDA r : r.produto = produto)],
     df_produto |-> SelectSeq(df.rows, LAMBDA r : r.produto = produto)]

\* df_produto = df[df["produto"] == produto_selecionado].copy(), with the
\* frame df is bound to afterwards
DfProdutoStep(df, produto) ==
    [df |-> df,
     df_produto |-> SelectSeq(df.rows, LAMBDA r : r.produto = produto)]

RECURSIVE SortDates(_)
SortDates(S) ==
    IF S = {} THEN <<>>
    ELSE LET d == CHOOSE x \in S : \A y \in S : x = y \/ DateLess(x, y)
         IN <<d>> \o SortDates(S \ {d})

RECURSIVE SumQuantidade(_)
SumQuantidade(rows) ==
    IF rows = <<>> THEN 0 ELSE Head(rows).quantidade + SumQuantidade(Tail(rows))

\* the key groupby("data_ref") groups on: the cell value itself
GroupKey(r) == r.data_ref

\* .groupby("data_ref", as_index=False)["quantidade"].sum().rename(ds, y):
\* one row per distinct key, keys ascending
BuildSerie(df_produto) ==
    LET keys == SortDates({GroupKey(df_produto[i]) : i \in DOMAIN df_produto})
    IN [k \in DOMAIN keys |->
          [ds |-> keys[k],
           y |-> SumQuantidade(SelectSeq(df_produto, LAMBDA r : GroupKey(r) = keys[k]))]]

\* serie_display: Período as AAAA-MM, Quantidade vendida
SerieDisplay(serie) ==
    [k \in DOMAIN serie |-> [periodo |-> strftime_Ym(serie[k].ds), quantidade |-> serie[k].y]]

\* len(serie) < 3
HistoryTooShort(serie) == Len(serie) < MinHistory

\* ------------------------------------------------------------------------
\* Forecasting engine as the script uses it (lines 132-140)
\* ------------------------------------------------------------------------
\* raw (yhat, yhat_lower, yhat_upper) rows the engine may answer with, in
\* tenths: the 12.4 / 9.6 / 15.5 example, ties on even and on odd integers,
\* a negative row, a row with the estimate above its band, an inverted band
RawTriples ==
    << <<124, 96, 155>>, <<25, 5, 45>>, <<35, -15, 55>>,
       <<60, 40, 50>>, <<30, 50, 20>> >>

\* what one Prophet() instance does in a run: fit raises, predict raises, or
\* predict answers with the raw triples in rotation, starting at some triple
EngineBehaviours ==
    {[fails |-> "fit", first |-> 1], [fails |-> "predict", first |-> 1]}
    \cup {[fails |-> "no", first |-> k] : k \in DOMAIN RawTriples}

\* pd.date_range(start, periods=n, freq="MS"): n month starts, from start on
date_range_MS(start, n) ==
    LET first == IF Day(start) = 1 THEN MonthIndex(start) ELSE MonthIndex(start) + 1
    IN [k \in 1..n |-> MonthStartOfIndex(first + k - 1)]

\* variant: the start of the range is not dropped
make_future_dataframe_keep_start(history_dates, periods) ==
    history_dates \o
    SubSeq(date_range_MS(history_dates[Len(history_dates)], periods + 1), 1, periods)

\* modelo.make_future_dataframe(periods, freq="MS"): the fitted dates, then
\* the first `periods` dates of the range that lie after the last fitted one
make_future_dataframe(history_dates, periods) ==
    LET last_date == history_dates[Len(history_dates)]
        dates == SelectSeq(date_range_MS(last_date, periods + 1),
                           LAMBDA d : DateLess(last_date, d))
    IN history_dates \o SubSeq(dates, 1, periods)

\* modelo.predict(futuro): one row per date, in date order
predict(futuro, eng) ==
    [i \in DOMAIN futuro |->
        LET t == RawTriples[((eng.first + i - 2) % Len(RawTriples)) + 1]
        IN [ds |-> futuro[i], yhat |-> t[1], yhat_lower |-> t[2], yhat_upper |-> t[3]]]

\* ------------------------------------------------------------------------
\* Forecast tables (lines 143-177)
\* ------------------------------------------------------------------------
\* previsao.tail(n)
tail(rows, n) == SubSeq(rows, Len(rows) - n + 1, Len(rows))

\* variant: a tie goes up
round_half_up(x) == (x + 5) \div 10

\* Series.round().astype(int) on a value given in tenths: nearest integer,
\* a tie goes to the even neighbour
round(x) ==
    LET q == x \div 10
        r == x % 10
    IN IF r < 5 THEN q
       ELSE IF r > 5 THEN q + 1
       ELSE IF q % 2 = 0 THEN q ELSE q + 1

PrevisaoFuturo(previsao, meses_prever) ==
    LET t == tail(previsao, meses_prever)
    IN [i \in DOMAIN t |->
          [ds |-> t[i].ds,
           yhat |-> round(t[i].yhat),
           yhat_lower |-> round(t[i].yhat_lower),
           yhat_upper |-> round(t[i].yhat_upper)]]

\* tabela_prev: Data, Previsão (unidades), Limite inferior, Limite superior
TabelaPrev(previsao_futuro) ==
    [i \in DOMAIN previsao_futuro |->
        [Data |-> strftime_Ymd(previsao_futuro[i].ds),
         Previsao |-> previsao_futuro[i].yhat,
         LimiteInferior |-> previsao_futuro[i].yhat_lower,
         LimiteSuperior |-> previsao_futuro[i].yhat_upper]]

\* tabela_resumida: Data re-read from its text and written as mm/AAAA
TabelaResumida(tabela_prev) ==
    [i \in DOMAIN tabela_prev |->
        [Data |-> strftime_mY(to_datetime(tabela_prev[i].Data)),
         Previsao |-> tabela_prev[i].Previsao]]

CsvHeader ==
    << <<"D", "a", "t", "a">>,
       <<"P", "r", "e", "v", "i", "s", "ã", "o", " ",
         "(", "u", "n", "i", "d", "a", "d", "e", "s", ")">>,
       <<"L", "i", "m", "i", "t", "e", " ",
         "i", "n", "f", "e", "r", "i", "o", "r">>,
       <<"L", "i", "m", "i", "t", "e", " ",
         "s", "u", "p", "e", "r", "i", "o", "r">> >>

RECURSIVE JoinFields(_)
JoinFields(fields) ==
    IF Len(fields) = 1 THEN fields[1]
    ELSE fields[1] \o <<",">> \o JoinFields(Tail(fields))

RECURSIVE JoinLines(_)
JoinLines(lines) ==
    IF lines = <<>> THEN <<>>
    ELSE JoinFields(lines[1]) \o <<"\n">> \o JoinLines(Tail(lines))

\* variant: to_csv() with the index column left in
to_csv_index(tabela_prev) ==
    JoinLines(<< <<<<>>>> \o CsvHeader >> \o
              [i \in DOMAIN tabela_prev |->
                  << IntToText(i - 1),
                     tabela_prev[i].Data,
                     IntToText(tabela_prev[i].Previsao),
                     IntToText(tabela_prev[i].LimiteInferior),
                     IntToText(tabela_prev[i].LimiteSuperior) >>])

\* tabela_prev.to_csv(index=False): the header line, then one line per row
to_csv(tabela_prev) ==
    JoinLines(<<CsvHeader>> \o
              [i \in DOMAIN tabela_prev |->
                  << tabela_prev[i].Data,
                     IntToText(tabela_prev[i].Previsao),
                     IntToText(tabela_prev[i].LimiteInferior),
                     IntToText(tabela_prev[i].LimiteSuperior) >>])

\* the figure: band and forecast line over every predicted row (unrounded),
\* observed points of the series
Chart(previsao, serie) ==
    [band |-> [i \in DOMAIN previsao |->
                  <<previsao[i].ds, previsao[i].yhat_lower, previsao[i].yhat_upper>>],
     line |-> [i \in DOMAIN previsao |-> <<previsao[i].ds, previsao[i].yhat>>],
     observed |-> [k \in DOMAIN serie |-> <<serie[k].ds, serie[k].y>>]]

NoChart == [band |-> <<>>, line |-> <<>>, observed |-> <<>>]

\* ------------------------------------------------------------------------
\* One run of the script (lines 59-229)
\* ------------------------------------------------------------------------
\* a page with nothing on it
Blank ==
    [status |-> "no_file", df |-> EmptyFrame, df_preview |-> <<>>,
     lista_produtos |-> <<>>, produto_selecionado |-> NoProduct, meses_prever |-> 0,
     serie |-> <<>>, serie_display |-> <<>>, button |-> FALSE, clicked |-> FALSE,
     engine_calls |-> {},
     previsao |-> <<>>, tabela_prev |-> <<>>, tabela_resumida |-> <<>>,
     csv_prev |-> <<>>, chart |-> NoChart, widgets |-> NoWidgets]

\* the page `base` with the fields of r put on it
With(base, r) == r @@ base

\* variant: the button keeps reporting its click in the runs that follow
ButtonPressed_sticky(event) == event \in {"click", "produto", "meses", "upload"}

\* st.button("Gerar previsão"): True only in the run its click triggered
ButtonPressed(event) == event = "click"

\* widget values kept for the next run, the selectors having been drawn
WidgetsAfter(lista, produto, meses) ==
    [has_select |-> TRUE, options |-> lista, produto |-> produto,
     has_slider |-> TRUE, meses |-> meses]

\* variant: an engine failure takes the rest of the page and the widget
\* values with it
Forecast_wipe(page, serie, meses_prever, eng) ==
    IF eng.fails = "fit"
    THEN With(Blank, [status |-> "fit_error", engine_calls |-> {"fit"}])
    ELSE IF eng.fails = "predict"
    THEN With(Blank, [status |-> "predict_error", engine_calls |-> {"fit", "predict"}])
    ELSE LET previsao == predict(make_future_dataframe([k \in DOMAIN serie |-> serie[k].ds],
                                                       meses_prever), eng)
             tabela_prev == TabelaPrev(PrevisaoFuturo(previsao, meses_prever))
         IN With(page,
                 [status |-> "forecast",
                  engine_calls |-> {"fit", "predict"},
                  previsao |-> previsao,
                  tabela_prev |-> tabela_prev,
                  tabela_resumida |-> TabelaResumida(tabela_prev),
                  csv_prev |-> to_csv(tabela_prev),
                  chart |-> Chart(previsao, serie)])

\* lines 132-227: the forecast branch
Forecast(page, serie, meses_prever, eng) ==
    IF eng.fails = "fit"
    THEN With(page, [status |-> "fit_error", engine_calls |-> {"fit"}])
    ELSE LET history_dates == [k \in DOMAIN serie |-> serie[k].ds]
             futuro == make_future_dataframe(history_dates, meses_prever)
         IN IF eng.fails = "predict"
            THEN With(page, [status |-> "predict_error",
                             engine_calls |-> {"fit", "predict"}])
            ELSE LET previsao == predict(futuro, eng)
                     tabela_prev == TabelaPrev(PrevisaoFuturo(previsao, meses_prever))
                 IN With(page,
                         [status |-> "forecast",
                          engine_calls |-> {"fit", "predict"},
                          previsao |-> previsao,
                          tabela_prev |-> tabela_prev,
                          tabela_resumida |-> TabelaResumida(tabela_prev),
                          csv_prev |-> to_csv(tabela_prev),
                          chart |-> Chart(previsao, serie)])

\* lines 78-229: from the selectors on
AfterPreview(page, df0, w, event, eng) ==
    IF "produto" \notin df0.cols
    THEN With(page, [status |-> "produto_error"])
    ELSE
    LET lista == ListaProdutos(df0)
        produto == Selectbox(w, lista)
        meses == Slider(w)
        page1 == With(page, [lista_produtos |-> lista, produto_selecionado |-> produto,
                             meses_prever |-> meses,
                             widgets |-> WidgetsAfter(lista, produto, meses)])
    IN IF "quantidade" \notin df0.cols
       THEN With(page1, [status |-> "quantidade_error"])
       ELSE
       LET sel == DfProdutoStep(df0, produto)
           serie == BuildSerie(sel.df_produto)
           page2 == With(page1, [df |-> sel.df, serie |-> serie,
                                 serie_display |-> SerieDisplay(serie)])
       IN IF HistoryTooShort(serie)
          THEN With(page2, [status |-> "short_history"])
          ELSE IF ~ButtonPressed(event)
          THEN With(page2, [status |-> "awaiting_click", button |-> TRUE])
          ELSE Forecast(With(page2, [button |-> TRUE, clicked |-> TRUE]),
                        serie, meses, eng)

\* the whole script, given the uploader's value, the widget state left by
\* the previous run, the event that triggered the run and the engine
Script(arquivo, w, event, eng) ==
    IF ~arquivo.present
    THEN Blank
    ELSE IF "data_ref" \notin arquivo.cols
    THEN With(Blank, [status |-> "load_error"])          \* KeyError, line 68
    ELSE
    LET df0 == LoadData(arquivo)
    IN IF \E i \in DOMAIN df0.rows : df0.rows[i].data_ref = NaT
    THEN With(Blank, [status |-> "load_error"])          \* ValueError, line 68
    ELSE LET pv == PreviewStep(df0)
         IN AfterPreview(With(Blank, [df |-> pv.df, df_preview |-> pv.df_preview]),
                         pv.df, w, event, eng)

\* ------------------------------------------------------------------------
\* State
\* ------------------------------------------------------------------------
VARIABLES
    arquivo,             \* the uploader's value
    status,              \* where the last run ended
    df,                  \* the frame df is bound to at the end of the run
    df_preview,          \* rows of the preview table
    lista_produtos,      \* options of the product selector
    produto_selecionado,
    meses_prever,
    serie,
    serie_display,
    button,              \* whether "Gerar previsão" is on the page
    clicked,             \* what st.button returned in the last run
    engine_calls,        \* engine steps invoked by the last run
    previsao,            \* raw engine answer
    tabela_prev,
    tabela_resumida,
    csv_prev,
    chart,
    widgets              \* widget values Streamlit keeps for the next run

vars ==
    <<arquivo, status, df, df_preview, lista_produtos, produto_selecionado,
      meses_prever, serie, serie_display, button, clicked, engine_calls, previsao,
      tabela_prev, tabela_resumida, csv_prev, chart, widgets>>

\* the engine of a run that does not reach it
NoEngine == [fails |-> "fit", first |-> 1]

\* first run of a session: nothing uploaded, the script stops at line 60
Init ==
    /\ arquivo = NoFile
    /\ status = Blank.status
    /\ df = Blank.df
    /\ df_preview = Blank.df_preview
    /\ lista_produtos = Blank.lista_produtos
    /\ produto_selecionado = Blank.produto_selecionado
    /\ meses_prever = Blank.meses_prever
    /\ serie = Blank.serie
    /\ serie_display = Blank.serie_display
    /\ button = Blank.button
    /\ clicked = Blank.clicked
    /\ engine_calls = Blank.engine_calls
    /\ previsao = Blank.previsao
    /\ tabela_prev = Blank.tabela_prev
    /\ tabela_resumida = Blank.tabela_resumida
    /\ csv_prev = Blank.csv_prev
    /\ chart = Blank.chart
    /\ widgets = Blank.widgets

\* event e happens and the script runs again
Rerun(f, w, e, eng) ==
    \E page \in {Script(f, w, e, eng)} :
       /\ arquivo' = f
       /\ status' = page.status
       /\ df' = page.df
       /\ df_preview' = page.df_preview
       /\ lista_produtos' = page.lista_produtos
       /\ produto_selecionado' = page.produto_selecionado
       /\ meses_prever' = page.meses_prever
       /\ serie' = page.serie
       /\ serie_display' = page.serie_display
       /\ button' = page.button
       /\ clicked' = page.clicked
       /\ engine_calls' = page.engine_calls
       /\ previsao' = page.previsao
       /\ tabela_prev' = page.tabela_prev
       /\ tabela_resumida' = page.tabela_resumida
       /\ csv_prev' = page.csv_prev
       /\ chart' = page.chart
       /\ widgets' = page.widgets

\* the user puts a file in the empty uploader
Upload ==
    /\ ~arquivo.present
    /\ \E f \in Files : Rerun(f, widgets, "upload", NoEngine)

\* revisions of the uploaded file: a line appended, the last line dropped,
\* or another set of columns
Revisions(f) ==
    {g \in {[f EXCEPT !.rows = Append(f.rows, RowPool[k])] : k \in DOMAIN RowPool} : g \in Files}
    \cup {[f EXCEPT !.rows = SubSeq(f.rows, 1, Len(f.rows) - 1)] :
        k \in IF f.rows # <<>> THEN {1} ELSE {}}
    \cup {g \in {[f EXCEPT !.cols = c] : c \in ColumnSets \ {f.cols}} : g \in Files}

\* the user replaces the uploaded file by a revision of it
ReplaceFile ==
    /\ arquivo.present
    /\ \E f \in Revisions(arquivo) : Rerun(f, widgets, "upload", NoEngine)

\* the user removes the uploaded file
RemoveFile ==
    /\ arquivo.present
    /\ Rerun(NoFile, widgets, "remove", NoEngine)

\* the user picks another product in the selectbox
SelectProduct ==
    /\ widgets.has_select
    /\ \E i \in DOMAIN lista_produtos :
          /\ lista_produtos[i] # produto_selecionado
          /\ Rerun(arquivo, [widgets EXCEPT !.produto = lista_produtos[i]],
                   "produto", NoEngine)

\* the user moves the horizon slider
SetHorizon ==
    /\ widgets.has_slider
    /\ \E h \in SliderMin..SliderMax :
          /\ h # meses_prever
          /\ Rerun(arquivo, [widgets EXCEPT !.meses = h], "meses", NoEngine)

\* the user clicks "Gerar previsão"
Click ==
    /\ button
    /\ \E eng \in EngineBehaviours : Rerun(arquivo, widgets, "click", eng)

Next == Upload \/ ReplaceFile \/ RemoveFile \/ SelectProduct \/ SetHorizon \/ Click

Spec == Init /\ [][Next]_vars

\* ------------------------------------------------------------------------
\* Notions the properties are stated with
\* ------------------------------------------------------------------------
\* the run got as far as building the series (line 107)
SeriesBuilt ==
    status \in {"short_history", "awaiting_click", "fit_error", "predict_error", "forecast"}

\* the run got past the loading (line 68)
LoadedOk == status \notin {"no_file", "load_error"}

\* the uploaded file has the three columns and every date in it parses
WellFormed(f) ==
    /\ RequiredColumns \subseteq f.cols
    /\ \A i \in DOMAIN f.rows : to_datetime(f.rows[i].data_ref) # NaT

\* the typed records of the selected product in the uploaded file
SelectedRecords ==
    SelectSeq(LoadData(arquivo).rows, LAMBDA r : r.produto = produto_selecionado)

\* the calendar months in which the selected product has a record
ObservedMonths == {MonthIndex(SelectedRecords[i].data_ref) : i \in DOMAIN SelectedRecords}

LastObservedMonth == CHOOSE m \in ObservedMonths : \A n \in ObservedMonths : n <= m

RECURSIVE MonthTotal(_, _)
\* total quantity of the records that fall in month m
MonthTotal(rows, m) ==
    IF rows = <<>> THEN 0
    ELSE (IF MonthIndex(Head(rows).data_ref) = m THEN Head(rows).quantidade ELSE 0)
         + MonthTotal(Tail(rows), m)

\* n is x (in tenths) rounded to the nearest integer, a tie going to the even one
NearestTiesToEven(x, n) ==
    /\ 10 * n - x \in -5..5
    /\ (10 * n - x \in {-5, 5}) => n % 2 = 0

\* n is x (in tenths) rounded to the nearest integer, a tie going away from zero
NearestTiesAway(x, n) ==
    /\ 10 * n - x \in -5..5
    /\ (10 * n - x = 5) => x > 0
    /\ (10 * n - x = -5) => x < 0

\* the raw engine rows the forecast tables are made from
FutureRaw == tail(previsao, meses_prever)

RECURSIVE Split(_, _)
\* the pieces of text s between the separators sep
Split(s, sep) ==
    IF \A i \in DOMAIN s : s[i] # sep THEN <<s>>
    ELSE LET i == CHOOSE j \in DOMAIN s : s[j] = sep /\ \A k \in 1..(j - 1) : s[k] # sep
         IN <<SubSeq(s, 1, i - 1)>> \o Split(SubSeq(s, i + 1, Len(s)), sep)

RECURSIVE DigitsToNat(_)
DigitsToNat(s) ==
    IF s = <<>> THEN 0
    ELSE 10 * DigitsToNat(SubSeq(s, 1, Len(s) - 1)) + DigitVal[s[Len(s)]]

\* the integer a decimal text denotes
TextToInt(s) ==
    IF s # <<>> /\ s[1] = "-" THEN 0 - DigitsToNat(Tail(s)) ELSE DigitsToNat(s)

HeaderLine ==
    << "D", "a", "t", "a", ",",
       "P", "r", "e", "v", "i", "s", "ã", "o", " ",
       "(", "u", "n", "i", "d", "a", "d", "e", "s", ")", ",",
       "L", "i", "m", "i", "t", "e", " ", "i", "n", "f", "e", "r", "i", "o", "r", ",",
       "L", "i", "m", "i", "t", "e", " ", "s", "u", "p", "e", "r", "i", "o", "r" >>

NoForecastOnPage ==
    /\ tabela_prev = <<>>
    /\ tabela_resumida = <<>>
    /\ csv_prev = <<>>
    /\ chart = NoChart

\* ------------------------------------------------------------------------
\* Properties
\* ------------------------------------------------------------------------

\* C1: the series of the selected product has exactly one entry per calendar
\* month in which the product has a record, months strictly increasing, each
\* value the total quantity of the product's records of that month.
C1_OneEntryPerMonth ==
    SeriesBuilt =>
        /\ Len(serie) = Cardinality(ObservedMonths)
        /\ {MonthIndex(serie[k].ds) : k \in DOMAIN serie} = ObservedMonths
        /\ \A k \in 1..(Len(serie) - 1) :
              MonthIndex(serie[k].ds) < MonthIndex(serie[k + 1].ds)
        /\ \A k \in DOMAIN serie :
              serie[k].y = MonthTotal(SelectedRecords, MonthIndex(serie[k].ds))

\* C2: when the selected product has records in fewer than 3 calendar months,
\* no run invokes fit or predict or produces a forecast table or an export,
\* whether or not the button was clicked.
C2_NoForecastUnderThreeMonths ==
    (SeriesBuilt /\ Cardinality(ObservedMonths) < 3) =>
        /\ engine_calls = {}
        /\ NoForecastOnPage

\* C3: a forecast has exactly meses_prever rows, the k-th being the first day
\* of the k-th month after the last observed month; the rows are strictly
\* increasing and none is a month of the observed history.
C3_FutureSlice ==
    status = "forecast" =>
        /\ meses_prever \in SliderMin..SliderMax
        /\ Len(tabela_prev) = meses_prever
        /\ \A k \in DOMAIN tabela_prev :
              /\ tabela_prev[k].Data = strftime_Ymd(MonthStartOfIndex(LastObservedMonth + k))
              /\ MonthIndex(to_datetime(tabela_prev[k].Data)) \notin ObservedMonths
        /\ \A k \in 1..(Len(tabela_prev) - 1) :
              DateLess(to_datetime(tabela_prev[k].Data), to_datetime(tabela_prev[k + 1].Data))

C3_Witness ==
    /\ status = "forecast"
    /\ meses_prever = SliderMax
    /\ Cardinality(ObservedMonths) >= 3
    /\ Year(to_datetime(tabela_prev[1].Data)) = 2025

\* C4 as stated: every shown estimate and bound is its raw value rounded to the
\* nearest integer, a tie going away from zero.
C4_TiesAwayFromZero ==
    status = "forecast" =>
        \A i \in DOMAIN tabela_prev :
            /\ NearestTiesAway(FutureRaw[i].yhat, tabela_prev[i].Previsao)
            /\ NearestTiesAway(FutureRaw[i].yhat_lower, tabela_prev[i].LimiteInferior)
            /\ NearestTiesAway(FutureRaw[i].yhat_upper, tabela_prev[i].LimiteSuperior)

\* C4 as amended: every shown estimate and bound is its own raw value rounded
\* to the nearest integer, a tie going to the even neighbour; raw
\* (12.4, 9.6, 15.5) is shown as (12, 10, 16), and a raw n + 0.5 with n >= 0
\* is shown as n + 1 when n is odd and as n when n is even.
C4_TiesToEven ==
    status = "forecast" =>
        \A i \in DOMAIN tabela_prev :
            LET raw == <<FutureRaw[i].yhat, FutureRaw[i].yhat_lower, FutureRaw[i].yhat_upper>>
                shown == <<tabela_prev[i].Previsao, tabela_prev[i].LimiteInferior,
                           tabela_prev[i].LimiteSuperior>>
            IN /\ \A j \in 1..3 : NearestTiesToEven(raw[j], shown[j])
               /\ raw = <<124, 96, 155>> => shown = <<12, 10, 16>>
               /\ \A j \in 1..3 :
                     (raw[j] >= 0 /\ raw[j] % 10 = 5) =>
                        shown[j] = (IF (raw[j] \div 10) % 2 = 1
                                    THEN raw[j] \div 10 + 1 ELSE raw[j] \div 10)

C4_Witness ==
    /\ status = "forecast"
    /\ \E i \in DOMAIN tabela_prev :
          /\ FutureRaw[i].yhat = 25 /\ tabela_prev[i].Previsao = 2
          /\ FutureRaw[i].yhat_lower = 5 /\ tabela_prev[i].LimiteInferior = 0
    /\ \E i \in DOMAIN tabela_prev :
          /\ FutureRaw[i].yhat = 35 /\ tabela_prev[i].Previsao = 4
          /\ FutureRaw[i].yhat_lower = -15 /\ tabela_prev[i].LimiteInferior = -2

\* C5: every row of the forecast table (and so of the export) has
\* lower bound <= estimate <= upper bound.
C5_BoundsOrdered ==
    status = "forecast" =>
        \A i \in DOMAIN tabela_prev :
            /\ tabela_prev[i].LimiteInferior <= tabela_prev[i].Previsao
            /\ tabela_prev[i].Previsao <= tabela_prev[i].LimiteSuperior

\* C6: the export is the header line followed by one line per row of the
\* detailed table, with that row's date (YYYY-MM-DD), estimate, lower and upper
\* bound; the summary has the same rows in the same order, the date written
\* MM/YYYY, the same estimate, and no bounds.
C6_ExportAndSummary ==
    status = "forecast" =>
        LET lines == Split(csv_prev, "\n")
        IN /\ Len(lines) = meses_prever + 2
           /\ lines[Len(lines)] = <<>>
           /\ lines[1] = HeaderLine
           /\ Len(tabela_prev) = meses_prever
           /\ \A i \in DOMAIN tabela_prev :
                 LET cells == Split(lines[i + 1], ",")
                     data == tabela_prev[i].Data
                 IN /\ Len(cells) = 4
                    /\ cells[1] = data
                    /\ to_datetime(data) # NaT
                    /\ TextToInt(cells[2]) = tabela_prev[i].Previsao
                    /\ TextToInt(cells[3]) = tabela_prev[i].LimiteInferior
                    /\ TextToInt(cells[4]) = tabela_prev[i].LimiteSuperior
           /\ Len(tabela_resumida) = meses_prever
           /\ \A i \in DOMAIN tabela_resumida :
                 LET data == tabela_prev[i].Data
                 IN /\ DOMAIN tabela_resumida[i] = {"Data", "Previsao"}
                    /\ tabela_resumida[i].Previsao = tabela_prev[i].Previsao
                    /\ tabela_resumida[i].Data =
                          <<data[6], data[7], "/", data[1], data[2], data[3], data[4]>>

C6_Witness ==
    /\ status = "forecast"
    /\ meses_prever = SliderMax
    /\ \E i \in DOMAIN tabela_prev : tabela_prev[i].LimiteInferior < 0
    /\ tabela_prev[1].Data = strftime_Ymd(<<2025, 1, 1>>)
    /\ tabela_resumida[1].Data = <<"0", "1", "/", "2", "0", "2", "5">>

\* C7: a run in which fit or predict fails shows no forecast table and no
\* export, leaves the uploaded file, the loaded records, the selected product
\* and the horizon as they were, and leaves the forecast button on the page.
C7_EngineFailureConfined ==
    [][status' \in {"fit_error", "predict_error"} =>
          /\ NoForecastOnPage'
          /\ arquivo' = arquivo
          /\ df' = df
          /\ lista_produtos' = lista_produtos
          /\ produto_selecionado' = produto_selecionado
          /\ meses_prever' = meses_prever
          /\ widgets' = widgets
          /\ button']_vars

C7_Witness ==
    /\ status = "predict_error"
    /\ produto_selecionado = "bolo"
    /\ Len(lista_produtos) = 2
    /\ meses_prever = 7

\* C8: either every line of the upload becomes one typed record, or (a
\* required column missing, a date unparseable) nothing is ingested and the
\* run reaches neither the product selector nor the series nor the forecast.
C8_AllOrNothing ==
    arquivo.present =>
        IF WellFormed(arquivo)
        THEN LoadedOk /\ Len(df.rows) = Len(arquivo.rows)
        ELSE /\ df = EmptyFrame
             /\ df_preview = <<>>
             /\ lista_produtos = <<>>
             /\ ~widgets.has_select
             /\ serie = <<>>
             /\ ~button
             /\ engine_calls = {}

\* the forecast on the page is the one of the current file, product and horizon
ForecastIsCurrent ==
    /\ clicked
    /\ Len(previsao) = Len(serie) + meses_prever
    /\ {previsao[i].ds : i \in 1..Len(serie)}
          = {SelectedRecords[i].data_ref : i \in DOMAIN SelectedRecords}
    /\ chart.observed = [k \in DOMAIN serie |-> <<serie[k].ds, serie[k].y>>]
    /\ {serie[k].ds : k \in DOMAIN serie}
          = {SelectedRecords[i].data_ref : i \in DOMAIN SelectedRecords}
    /\ Len(chart.line) = Len(previsao) /\ Len(chart.band) = Len(previsao)
    /\ Len(tabela_prev) = meses_prever
    /\ Len(tabela_resumida) = meses_prever
    /\ \A k \in DOMAIN tabela_prev :
          /\ tabela_prev[k].Data = strftime_Ymd(MonthStartOfIndex(LastObservedMonth + k))
          /\ NearestTiesToEven(FutureRaw[k].yhat, tabela_prev[k].Previsao)
          /\ tabela_resumida[k].Previsao = tabela_prev[k].Previsao
    /\ Len(Split(csv_prev, "\n")) = meses_prever + 2

\* C9: what is on the page was computed by the last run from the current
\* file, product and horizon: a forecast is shown only by a run the button
\* triggered, and it is the forecast of the current selection; a run in which
\* the file, the product or the horizon changes invokes no engine step and
\* shows no forecast.
C9_OnlyCurrentForecast ==
    /\ [](/\ engine_calls # {} => clicked
          /\ status = "forecast" => ForecastIsCurrent
          /\ status # "forecast" => NoForecastOnPage)
    /\ [][(\/ arquivo' # arquivo
           \/ produto_selecionado' # produto_selecionado
           \/ meses_prever' # meses_prever) =>
             (engine_calls' = {} /\ ~clicked' /\ NoForecastOnPage')]_vars

C9_Witness ==
    /\ status = "awaiting_click"
    /\ produto_selecionado = "bolo"
    /\ meses_prever = 5
    /\ Len(lista_produtos) = 2

\* C10: at the end of a run the loaded records are the ones the loading
\* produced, and building the series again from them, also after a series was
\* built for another product, gives the series of the run.
C10_RecordsUnchanged ==
    /\ LoadedOk => df = LoadData(arquivo)
    /\ SeriesBuilt =>
          \A q \in {lista_produtos[i] : i \in DOMAIN lista_produtos} :
              LET other == DfProdutoStep(df, q)
                  again == DfProdutoStep(other.df, produto_selecionado)
              IN /\ again.df = LoadData(arquivo)
                 /\ BuildSerie(again.df_produto) = serie

C10_Witness ==
    /\ status = "forecast"
    /\ Len(lista_produtos) = 2
    /\ Len(df.rows) > Len(SelectedRecords)

====
